---- MODULE Spec2Model ----
(***************************************************************************)
(* Tree-data providers of the extension: the cache controller of the list  *)
(* providers (getChildren / refresh / population completion), the file    *)
(* events of extension.ts that refresh them, and the population functions *)
(* getListComponents / getListFiles / getListHooks / getListRoutes.       *)
(*                                                                         *)
(* JavaScript values are tagged records: Undefined, an array (with the    *)
(* identity of the population that built it), a promise (with the id of   *)
(* the population it belongs to).  Strings that the code inspects         *)
(* character by character (labels, watch categories) are sequences of     *)
(* one-character strings; lines of text are opaque tokens classified by   *)
(* the providers' regular expressions.                                    *)
(***************************************************************************)
EXTENDS Integers, Sequences, FiniteSets, TLC

VARIABLES
    kind,          \* the provider class of the instance under observation
    cachedNodes,   \* this._cachedNodes
    cachePromise,  \* this._cachePromise
    pops,          \* the populations (calls of getListXxx) started so far
    enumCalls,     \* calls of ListFilesController.getFiles() so far
    fired,         \* calls of _onDidChangeTreeData.fire() so far
    refreshCalls,  \* calls of refresh() so far
    afterRefresh,  \* no root children-request since the last refresh()
    lastOp,        \* the operation the last step performed
    ret,           \* what the last provider call returned
    phase,         \* where the call of getListComponents traced in detail is
    allFiles,      \* its allFiles: what getFiles() resolved to
    task,          \* its limiter tasks, one per file
    fileChildren,  \* file.children of each of its file nodes
    groupFiles,    \* files of the call of getListFiles traced in detail
    groupTask,     \* its limiter tasks, one per watch category
    groupSlots,    \* the slots of its Promise.all, one per watch category
    doneOrder,     \* the traced population's tasks, in order of completion
    settled,       \* the population settled last in one step: what the
                   \* enumerator answered it, and its promise's outcome
    call,          \* the call of an inflector helper made last
    reads          \* per population of getListComponents: its files and
                   \* its limiter's counts of queued and of running reads

\* The variables of the traced getListFiles.
groupVars == <<groupFiles, groupTask, groupSlots>>

\* The variables of the population traced step by step.
scanVars == <<phase, allFiles, task, fileChildren, groupFiles, groupTask,
              groupSlots, doneOrder, reads>>

vars == <<kind, cachedNodes, cachePromise, pops, enumCalls, fired,
          refreshCalls, afterRefresh, lastOp, ret, phase, allFiles, task,
          fileChildren, groupFiles, groupTask, groupSlots, doneOrder,
          settled, call, reads>>

-----------------------------------------------------------------------------
\* Bounds of the model.

\* Populations one behaviour may start.
MaxPops == 3

\* refresh() calls (explicit or by a file event) one behaviour may make.
MaxRefresh == 2

-----------------------------------------------------------------------------
\* JavaScript values.

Undefined == [t |-> "undefined"]

Arr(id, items) == [t |-> "array", id |-> id, items |-> items]

PromiseOf(id) == [t |-> "promise", id |-> id]

\* Truthy with the empty array taken as falsy.
TruthyNonEmpty(v) == v.t # "undefined" /\ (v.t = "array" => Len(v.items) > 0)

\* if (value): undefined is falsy, every array (the empty one too) and
\* every promise is truthy.
Truthy(v) == v.t # "undefined"

-----------------------------------------------------------------------------
\* Strings as character sequences, and the helpers of inflector.helper.ts
\* that getListFiles uses.

EndsWith(str, suffix) ==
    /\ Len(str) >= Len(suffix)
    /\ SubSeq(str, Len(str) - Len(suffix) + 1, Len(str)) = suffix

\* String.prototype.includes
Includes(str, sub) ==
    \E i \in 1..(Len(str) - Len(sub) + 1) : SubSeq(str, i, i + Len(sub) - 1) = sub

pluralize(str) ==
    IF EndsWith(str, <<"y">>)
    THEN SubSeq(str, 1, Len(str) - 1) \o <<"i", "e", "s">>
    ELSE IF EndsWith(str, <<"s">>)
    THEN str
    ELSE str \o <<"s">>

singularize(str) ==
    IF EndsWith(str, <<"i", "e", "s">>)
    THEN SubSeq(str, 1, Len(str) - 3) \o <<"y">>
    ELSE IF EndsWith(str, <<"s">>)
    THEN SubSeq(str, 1, Len(str) - 1)
    ELSE str

Lower == <<"a", "b", "c", "d", "e", "f", "g", "h", "i", "j", "k", "l", "m",
           "n", "o", "p", "q", "r", "s", "t", "u", "v", "w", "x", "y", "z">>

Upper == <<"A", "B", "C", "D", "E", "F", "G", "H", "I", "J", "K", "L", "M",
           "N", "O", "P", "Q", "R", "S", "T", "U", "V", "W", "X", "Y", "Z">>

Digits == <<"0", "1", "2", "3", "4", "5", "6", "7", "8", "9">>

\* String.prototype.toUpperCase on one character
toUpperCase(c) ==
    IF \E i \in 1..Len(Lower) : Lower[i] = c
    THEN Upper[CHOOSE i \in 1..Len(Lower) : Lower[i] = c]
    ELSE c

\* String.prototype.toLowerCase on one character
toLowerCase(c) ==
    IF \E i \in 1..Len(Upper) : Upper[i] = c
    THEN Lower[CHOOSE i \in 1..Len(Upper) : Upper[i] = c]
    ELSE c

\* [A-Z]
IsUpperChar(c) == \E i \in 1..Len(Upper) : Upper[i] = c

\* \w: a letter, a digit or the underscore
IsWordChar(c) ==
    \/ IsUpperChar(c)
    \/ \E i \in 1..Len(Lower) : Lower[i] = c
    \/ \E i \in 1..Len(Digits) : Digits[i] = c
    \/ c = "_"

\* /(?:^\w|[A-Z]|\b\w)/g matches the one character at position i: an
\* upper-case letter, or a word character with no word character before it.
WordStart(str, i) ==
    \/ IsUpperChar(str[i])
    \/ IsWordChar(str[i]) /\ (i = 1 \/ ~IsWordChar(str[i - 1]))

\* .replace(/\s+/g, '')
RemoveSpaces(str) == SelectSeq(str, LAMBDA c : c # " ")

\* .replace(/\s+/g, '-'): every run of spaces becomes one dash
RECURSIVE DashSpaces(_)
DashSpaces(str) ==
    IF Len(str) = 0 THEN <<>>
    ELSE IF str[1] # " " THEN <<str[1]>> \o DashSpaces(Tail(str))
    ELSE IF Len(str) > 1 /\ str[2] = " " THEN DashSpaces(Tail(str))
    ELSE <<"-">> \o DashSpaces(Tail(str))

\* camelize with the replacement of dasherize for the runs of spaces.
camelizeDashed(str) ==
    DashSpaces([i \in 1..Len(str) |->
        IF ~WordStart(str, i) THEN str[i]
        ELSE IF i = 1 THEN toLowerCase(str[i]) ELSE toUpperCase(str[i])])

\* camelize: the callback's index is 0 for the first character only
camelize(str) ==
    RemoveSpaces([i \in 1..Len(str) |->
        IF ~WordStart(str, i) THEN str[i]
        ELSE IF i = 1 THEN toLowerCase(str[i]) ELSE toUpperCase(str[i])])

\* pascalize
pascalize(str) ==
    RemoveSpaces([i \in 1..Len(str) |->
        IF WordStart(str, i) THEN toUpperCase(str[i]) ELSE str[i]])

\* `${n}` for a non-negative integer
RECURSIVE NumToString(_)
NumToString(n) ==
    IF n < 10 THEN <<Digits[n + 1]>>
    ELSE NumToString(n \div 10) \o <<Digits[(n % 10) + 1]>>

\* ordinal without the tests of num % 100.
ordinalNoTeens(num) ==
    LET j == num % 10
    IN  IF j = 1 THEN NumToString(num) \o <<"s", "t">>
        ELSE IF j = 2 THEN NumToString(num) \o <<"n", "d">>
        ELSE IF j = 3 THEN NumToString(num) \o <<"r", "d">>
        ELSE NumToString(num) \o <<"t", "h">>

\* ordinal, for a non-negative integer
ordinal(num) ==
    LET j == num % 10
        k == num % 100
    IN  IF j = 1 /\ k # 11 THEN NumToString(num) \o <<"s", "t">>
        ELSE IF j = 2 /\ k # 12 THEN NumToString(num) \o <<"n", "d">>
        ELSE IF j = 3 /\ k # 13 THEN NumToString(num) \o <<"r", "d">>
        ELSE NumToString(num) \o <<"t", "h">>

\* ordinalize: `${num}${ordinal(num)}`
ordinalize(num) == NumToString(num) \o ordinal(num)

\* str.split(' '): the words between single spaces (empty words included)
RECURSIVE SplitSpace(_)
SplitSpace(str) ==
    IF \A i \in 1..Len(str) : str[i] # " "
    THEN <<str>>
    ELSE LET i == CHOOSE k \in 1..Len(str) :
                      str[k] = " " /\ \A j \in 1..(k - 1) : str[j] # " "
         IN  <<SubSeq(str, 1, i - 1)>> \o SplitSpace(SubSeq(str, i + 1, Len(str)))

\* words.join(' ')
RECURSIVE JoinSpace(_)
JoinSpace(words) ==
    IF Len(words) = 0 THEN <<>>
    ELSE IF Len(words) = 1 THEN words[1]
    ELSE words[1] \o <<" ">> \o JoinSpace(Tail(words))

\* The outcome of a call: a value, or a thrown TypeError.
Throws == [t |-> "throw"]

Returns(v) == [t |-> "return", v |-> v]

\* titleize: word[0] is undefined for an empty word, and
\* undefined.toUpperCase() throws.
titleize(str) ==
    LET words == SplitSpace(str)
    IN  IF \E i \in 1..Len(words) : Len(words[i]) = 0
        THEN Throws
        ELSE Returns(JoinSpace([i \in 1..Len(words) |->
                 <<toUpperCase(words[i][1])>> \o Tail(words[i])]))

-----------------------------------------------------------------------------
\* Lines of text, classified by the providers' regular expressions.

\* componentRegex.exec(text): the captured tag name, "" when the line does
\* not match (an opening or closing tag whose name starts upper-case).
ComponentName(text) ==
    CASE text = "<Button>" -> "Button"
      [] text = "  <Link href>" -> "Link"
      [] text = "</Card>" -> "Card"
      [] OTHER -> ""

\* line.text.match(/(useCallback|...|useState|...)/gi)
HookMatch(text) == text = "const [s] = useState(0)"

\* line.text.match(/:[\w\s]+procedure/gi)
RouteMatch(text) == text = "  hello: publicProcedure"

\* String.prototype.trim
Trim(text) ==
    CASE text = "  <Link href>" -> "<Link href>"
      [] text = "  hello: publicProcedure" -> "hello: publicProcedure"
      [] OTHER -> text

-----------------------------------------------------------------------------
\* Nodes.  A file node comes from the enumerator with no children; the text
\* document behind its resource is `lines`, or cannot be opened.

NodeModel(label, command, children) ==
    [t |-> "node", label |-> label, command |-> command, children |-> children]

\* command.arguments of a leaf: [file.resourceUri, i]
GotoLine(uri, i) == [t |-> "command", uri |-> uri, line |-> i]

FileEntry(label, hasUri, uri, readable, lines) ==
    [label |-> label, hasUri |-> hasUri, uri |-> uri,
     readable |-> readable, lines |-> lines]

\* file.setChildren(children) on the node of file f
FileNode(f, children) ==
    [t |-> "node", label |-> f.label, uri |-> IF f.hasUri THEN f.uri ELSE "",
     command |-> Undefined, children |-> children]

\* The indices 1..n, in ascending order: the loop variable of a line loop.
UpTo(n) == [i \in 1..n |-> i]

-----------------------------------------------------------------------------
\* The population functions, as functions of what the enumerator and the
\* text documents yield.  files is the value ListFilesController.getFiles()
\* resolves to: Undefined or an array of file entries.  id is the identity
\* of the population, which every array it builds carries.

Resolved(v) == [t |-> "resolved", v |-> v]

Rejected == [t |-> "rejected"]

\* The line loop of getListComponents over an opened document: one leaf
\* per line the component pattern matches, in line order.
ComponentLeaves(f) ==
    LET hits == SelectSeq(UpTo(Len(f.lines)),
                          LAMBDA i : ComponentName(f.lines[i]) # "")
    IN  [k \in 1..Len(hits) |->
            NodeModel(ComponentName(f.lines[hits[k]]),
                      GotoLine(f.uri, hits[k] - 1), Undefined)]

\* The children of one file in getListComponents: the line loop inside
\* the try block, [] for a file without resource or whose read fails.
ComponentChildren(f) ==
    IF ~f.hasUri THEN <<>>
    ELSE IF ~f.readable THEN <<>>
    ELSE ComponentLeaves(f)

\* getListComponents returning allFiles without the final filter.
getListComponentsUnfiltered(files, id) ==
    IF ~Truthy(files) THEN Resolved(Arr(id, <<>>))
    ELSE Resolved(Arr(id, [i \in 1..Len(files.items) |->
                      FileNode(files.items[i],
                               Arr(id, ComponentChildren(files.items[i])))]))

getListComponents(files, id) ==
    IF ~Truthy(files) THEN Resolved(Arr(id, <<>>))
    ELSE LET nodes == [i \in 1..Len(files.items) |->
                          FileNode(files.items[i],
                                   Arr(id, ComponentChildren(files.items[i])))]
         IN  Resolved(Arr(id, SelectSeq(nodes,
                 LAMBDA n : Len(n.children.items) > 0)))

\* ListFilesController.config.watch, a user setting: two categories and
\* one entered with a space before the word.
Watch == << <<"c", "o", "m", "p", "o", "n", "e", "n", "t", "s">>,
            <<"p", "a", "g", "e", "s">>,
            <<" ", "t", "e", "s", "t", "s">> >>

\* One category task of the caching getListFiles: Undefined when no file
\* label includes the singularized category.
FilesGroup(files, type, id) ==
    LET suffix == singularize(type)
        children == SelectSeq(files.items, LAMBDA f : Includes(f.label, suffix))
    IN  IF Len(children) = 0 THEN Returns(Undefined)
        ELSE IF titleize(type).t = "throw" THEN Throws
        ELSE Returns(NodeModel(
                 titleize(type).v \o <<":", " ">> \o NumToString(Len(children)),
                 Undefined,
                 Arr(id, [i \in 1..Len(children) |->
                             FileNode(children[i], Undefined)])))

\* getListFiles of the caching ListFilesProvider
getListFiles(files, id) ==
    IF ~Truthy(files) THEN Resolved(Undefined)
    ELSE LET groups == [i \in 1..Len(Watch) |-> FilesGroup(files, Watch[i], id)]
         IN  IF \E i \in 1..Len(groups) : groups[i].t = "throw"
             THEN Rejected
             ELSE Resolved(Arr(id,
                      LET kept == SelectSeq(groups, LAMBDA g : Truthy(g.v))
                      IN  [i \in 1..Len(kept) |-> kept[i].v]))

\* getListFiles of the ListFilesProvider without cache
getListFilesPlain(files, id) ==
    IF ~Truthy(files) THEN Resolved(Undefined)
    ELSE LET types == SelectSeq(Watch, LAMBDA type :
                 \E i \in 1..Len(files.items) :
                     Includes(files.items[i].label, singularize(type)))
             fileTypeNodes == [k \in 1..Len(types) |->
                 LET filesOfType == SelectSeq(files.items, LAMBDA f :
                         Includes(f.label, singularize(types[k])))
                 IN  NodeModel(
                         types[k] \o <<":", " ">> \o NumToString(Len(filesOfType)),
                         Undefined,
                         Arr(id, [i \in 1..Len(filesOfType) |->
                                     FileNode(filesOfType[i], Undefined)]))]
         IN  IF Len(fileTypeNodes) = 0 THEN Resolved(Undefined)
             ELSE Resolved(Arr(id, fileTypeNodes))

\* The line test of getListHooks ("hooks") and of getListRoutes ("routes").
LineMatches(pattern, text) ==
    CASE pattern = "hooks" -> HookMatch(text)
      [] pattern = "routes" -> RouteMatch(text)

\* LineChildren with the editor's 1-based line number in the command.
LineChildrenOneBased(f, pattern) ==
    LET hits == SelectSeq(UpTo(Len(f.lines)),
                          LAMBDA i : LineMatches(pattern, f.lines[i]))
    IN  [k \in 1..Len(hits) |->
            NodeModel(Trim(f.lines[hits[k]]),
                      GotoLine(f.uri, hits[k]), Undefined)]

\* The children of one file in getListHooks / getListRoutes: one leaf per
\* line the pattern matches.
LineChildren(f, pattern) ==
    LET hits == SelectSeq(UpTo(Len(f.lines)),
                          LAMBDA i : LineMatches(pattern, f.lines[i]))
    IN  [k \in 1..Len(hits) |->
            NodeModel(Trim(f.lines[hits[k]]),
                      GotoLine(f.uri, hits[k] - 1), Undefined)]

\* getListHooks and getListRoutes: the for loop awaits openTextDocument
\* outside any try block, so the first file that cannot be opened rejects
\* the whole call.
LineScan(files, id, pattern) ==
    IF ~Truthy(files) THEN Resolved(Undefined)
    ELSE IF \E i \in 1..Len(files.items) :
                ~files.items[i].hasUri \/ ~files.items[i].readable
    THEN Rejected
    ELSE LET nodes == [i \in 1..Len(files.items) |->
                          FileNode(files.items[i],
                              Arr(id, LineChildren(files.items[i], pattern)))]
             found == SelectSeq(nodes, LAMBDA n : Len(n.children.items) # 0)
         IN  IF Len(found) > 0 THEN Resolved(Arr(id, found))
             ELSE Resolved(Undefined)

\* getListHooks without the if (!allFiles) guard: the for loop over
\* undefined throws.
getListHooksNoGuard(files, id) ==
    IF ~Truthy(files) THEN Rejected ELSE LineScan(files, id, "hooks")

getListHooks(files, id) == LineScan(files, id, "hooks")

getListRoutes(files, id) == LineScan(files, id, "routes")

-----------------------------------------------------------------------------
\* What the workspace may hold when a population runs: the enumerator's
\* answer, with the text behind each file.

ButtonFile ==
    FileEntry(<<"B", "u", "t", "t", "o", "n", ".", "c", "o", "m", "p", "o",
                "n", "e", "n", "t", ".", "t", "s", "x">>,
              TRUE, "Button.component.tsx", TRUE,
              <<"import React", "<Button>", "const [s] = useState(0)">>)

HomeFile ==
    FileEntry(<<"H", "o", "m", "e", ".", "p", "a", "g", "e", ".", "t", "s", "x">>,
              TRUE, "Home.page.tsx", FALSE, <<>>)

UtilsFile ==
    FileEntry(<<"u", "t", "i", "l", "s", ".", "t", "s">>,
              TRUE, "utils.ts", TRUE,
              <<"  hello: publicProcedure", "<div>">>)

\* A file whose label includes the singular of the third category.
TestFile ==
    FileEntry(<<"a", " ", "t", "e", "s", "t", ".", "t", "s">>,
              TRUE, "a test.ts", TRUE, <<"<div>">>)

\* getFiles() resolves to undefined when it finds no file.
NoFiles == Undefined

Workspaces ==
    {NoFiles,
     Arr(0, <<>>),
     Arr(0, <<ButtonFile>>),
     Arr(0, <<UtilsFile>>),
     Arr(0, <<UtilsFile, ButtonFile>>),
     Arr(0, <<ButtonFile, HomeFile, UtilsFile>>),
     Arr(0, <<TestFile>>)}

-----------------------------------------------------------------------------
\* The provider classes.

Kinds == {"components", "files", "hooks", "routes", "filesPlain"}

\* The classes that declare _cachedNodes and _cachePromise.
Caching == {"components", "files"}

\* The population function of each class.
Populate(k, files, id) ==
    CASE k = "components" -> getListComponents(files, id)
      [] k = "files" -> getListFiles(files, id)
      [] k = "hooks" -> getListHooks(files, id)
      [] k = "routes" -> getListRoutes(files, id)
      [] k = "filesPlain" -> getListFilesPlain(files, id)

PopIds == 1..MaxPops

NoCall == [fn |-> "none", arg |-> 0, out |-> <<>>]

NoneSettled == [input |-> Undefined, out |-> Resolved(Undefined)]

NoPop == [status |-> "none", gen |-> 0]

\* A population whose reads are not followed.
NoScan == [phase |-> "none", files |-> Undefined, queued |-> 0, reading |-> 0]

Init ==
    /\ kind \in Kinds
    /\ cachedNodes = Undefined
    /\ cachePromise = Undefined
    /\ pops = [id \in PopIds |-> NoPop]
    /\ enumCalls = 0
    /\ fired = 0
    /\ refreshCalls = 0
    /\ afterRefresh = FALSE
    /\ lastOp = "constructor"
    /\ ret = Undefined
    /\ phase = "idle"
    /\ allFiles = Undefined
    /\ task = <<>>
    /\ fileChildren = <<>>
    /\ groupFiles = Undefined
    /\ groupTask = <<>>
    /\ groupSlots = <<>>
    /\ doneOrder = <<>>
    /\ settled = NoneSettled
    /\ call = NoCall
    /\ reads = [id \in PopIds |-> NoScan]

-----------------------------------------------------------------------------
\* The provider's operations.

\* A call of getListXxx(): it runs to its first await, the call of
\* ListFilesController.getFiles(), and returns the pending promise.
StartPopulation(id) ==
    /\ pops' = [pops EXCEPT ![id] = [status |-> "pending", gen |-> refreshCalls]]
    /\ enumCalls' = enumCalls + 1

\* CachingGetChildren without the test of this._cachePromise: every
\* root request that finds no cached nodes starts a population.
CachingGetChildrenNoPending ==
    /\ IF Truthy(cachedNodes)
       THEN /\ ret' = cachedNodes
            /\ UNCHANGED <<cachePromise, pops, enumCalls>>
       ELSE /\ enumCalls < MaxPops
            /\ StartPopulation(enumCalls + 1)
            /\ cachePromise' = PromiseOf(enumCalls + 1)
            /\ ret' = PromiseOf(enumCalls + 1)
    /\ afterRefresh' = FALSE
    /\ lastOp' = "getChildren"
    /\ UNCHANGED <<kind, call, settled, cachedNodes, fired, refreshCalls>>

\* getChildren() with no element, of the classes that keep a cache.
CachingGetChildren ==
    /\ IF Truthy(cachedNodes)
       THEN /\ ret' = cachedNodes
            /\ UNCHANGED <<cachePromise, pops, enumCalls>>
       ELSE IF Truthy(cachePromise)
       THEN /\ ret' = cachePromise
            /\ UNCHANGED <<cachePromise, pops, enumCalls>>
       ELSE /\ enumCalls < MaxPops
            /\ StartPopulation(enumCalls + 1)
            /\ cachePromise' = PromiseOf(enumCalls + 1)
            /\ ret' = PromiseOf(enumCalls + 1)
    /\ afterRefresh' = FALSE
    /\ lastOp' = "getChildren"
    /\ UNCHANGED <<kind, call, settled, cachedNodes, fired, refreshCalls>>

\* getChildren() with no element, of the classes without cache fields:
\* return this.getListXxx().
PlainGetChildren ==
    /\ enumCalls < MaxPops
    /\ StartPopulation(enumCalls + 1)
    /\ ret' = PromiseOf(enumCalls + 1)
    /\ afterRefresh' = FALSE
    /\ lastOp' = "getChildren"
    /\ UNCHANGED <<kind, call, settled, cachedNodes, cachePromise, fired,
                   refreshCalls>>

ComponentsGetChildren ==
    kind = "components" /\ CachingGetChildren /\ UNCHANGED scanVars

FilesGetChildren ==
    kind = "files" /\ CachingGetChildren /\ UNCHANGED scanVars

\* getChildren() of ListHooksProvider as if it kept the cache fields.
HooksGetChildrenCached ==
    kind = "hooks" /\ CachingGetChildren /\ UNCHANGED scanVars

HooksGetChildren ==
    kind = "hooks" /\ PlainGetChildren /\ UNCHANGED scanVars

RoutesGetChildren ==
    kind = "routes" /\ PlainGetChildren /\ UNCHANGED scanVars

FilesPlainGetChildren ==
    kind = "filesPlain" /\ PlainGetChildren /\ UNCHANGED scanVars

\* The top-level nodes the population resolved last has handed to the
\* view.
KnownNodes ==
    IF settled.out.t = "resolved" /\ Truthy(settled.out.v)
    THEN {settled.out.v.items[i] : i \in 1..Len(settled.out.v.items)}
    ELSE {}

\* getChildren(element): return element.children
GetChildrenOf ==
    /\ \E element \in KnownNodes : ret' = element.children
    /\ lastOp' = "getChildrenOf"
    /\ UNCHANGED <<kind, call, settled, cachedNodes, cachePromise, pops,
                   enumCalls, fired, refreshCalls, afterRefresh>>
    /\ UNCHANGED scanVars

\* getTreeItem(element): return element
GetTreeItem ==
    /\ \E element \in KnownNodes : ret' = element
    /\ lastOp' = "getTreeItem"
    /\ UNCHANGED <<kind, call, settled, cachedNodes, cachePromise, pops,
                   enumCalls, fired, refreshCalls, afterRefresh>>
    /\ UNCHANGED scanVars

\* ThenCallback without the reset of this._cachePromise.
ThenCallbackKeepsPromise(nodes) ==
    /\ cachedNodes' = nodes
    /\ UNCHANGED cachePromise

\* The callback getChildren chains on the population's promise.
ThenCallback(nodes) ==
    /\ cachedNodes' = nodes
    /\ cachePromise' = Undefined

\* A pending population settles: the enumerator and the text documents
\* yield what the workspace holds at that time.  A rejected promise skips
\* the then-callback.
PopulationSettles ==
    /\ \E id \in PopIds :
          /\ pops[id].status = "pending"
          /\ \E files \in Workspaces :
                LET out == Populate(kind, files, id)
                IN  /\ pops' = [pops EXCEPT ![id].status = out.t]
                    /\ settled' = [input |-> files, out |-> out]
                    /\ IF kind \in Caching /\ out.t = "resolved"
                       THEN ThenCallback(out.v)
                       ELSE UNCHANGED <<cachedNodes, cachePromise>>
    /\ lastOp' = "settle"
    /\ UNCHANGED <<kind, call, enumCalls, fired, refreshCalls, afterRefresh,
                   ret>>
    /\ UNCHANGED scanVars

\* TreeRefreshBase.refresh() without the fire() call.
TreeRefreshBaseRefreshSilent == fired' = fired

\* TreeRefreshBase.refresh(): this._onDidChangeTreeData.fire()
TreeRefreshBaseRefresh == fired' = fired + 1

\* refresh() of ListComponentsProvider
ComponentsRefresh ==
    /\ cachedNodes' = Undefined
    /\ cachePromise' = Undefined
    /\ TreeRefreshBaseRefresh

\* refresh() of the caching ListFilesProvider
FilesRefresh ==
    /\ cachedNodes' = Undefined
    /\ cachePromise' = Undefined
    /\ TreeRefreshBaseRefresh

\* refresh() of the ListFilesProvider without cache, on its own emitter
FilesPlainRefresh ==
    /\ fired' = fired + 1
    /\ UNCHANGED <<cachedNodes, cachePromise>>

\* provider.refresh() of the instance, whatever its class.
ProviderRefresh ==
    /\ refreshCalls < MaxRefresh
    /\ CASE kind = "components" -> ComponentsRefresh
         [] kind = "files" -> FilesRefresh
         [] kind = "filesPlain" -> FilesPlainRefresh
         [] OTHER -> TreeRefreshBaseRefresh /\ UNCHANGED <<cachedNodes, cachePromise>>
    /\ refreshCalls' = refreshCalls + 1
    /\ afterRefresh' = TRUE
    /\ ret' = Undefined
    /\ UNCHANGED <<kind, call, settled, pops, enumCalls>>
    /\ UNCHANGED scanVars

\* The registered command <extension>.listXxx.refresh
RefreshCommand == ProviderRefresh /\ lastOp' = "refresh"

\* A handler of onDidCreateFiles that refreshes no provider.
OnDidCreateFilesNoRefresh ==
    /\ lastOp' = "onDidCreateFiles"
    /\ UNCHANGED <<kind, call, settled, pops, enumCalls, cachedNodes,
                   cachePromise, fired, refreshCalls, afterRefresh, ret>>
    /\ UNCHANGED scanVars

\* workspace.onDidCreateFiles: refresh() on each of the four providers
OnDidCreateFiles == ProviderRefresh /\ lastOp' = "onDidCreateFiles"

\* workspace.onDidSaveTextDocument: refresh() on each of the four providers
OnDidSaveTextDocument == ProviderRefresh /\ lastOp' = "onDidSaveTextDocument"

Next ==
    \/ ComponentsGetChildren
    \/ FilesGetChildren
    \/ HooksGetChildren
    \/ RoutesGetChildren
    \/ FilesPlainGetChildren
    \/ GetChildrenOf
    \/ GetTreeItem
    \/ PopulationSettles
    \/ RefreshCommand
    \/ OnDidCreateFiles
    \/ OnDidSaveTextDocument

Spec == Init /\ [][Next]_vars

-----------------------------------------------------------------------------
\* The caching providers under the events of the workspace.

\* A deleted or renamed file, an edit not saved: activate() subscribes no
\* handler to these events, and no provider code runs.
OtherWorkspaceEvent ==
    /\ lastOp' = "otherWorkspaceEvent"
    /\ UNCHANGED <<kind, call, settled, pops, enumCalls, cachedNodes,
                   cachePromise, fired, refreshCalls, afterRefresh, ret>>
    /\ UNCHANGED scanVars

InitEvents == Init /\ kind \in Caching

NextEvents ==
    \/ ComponentsGetChildren
    \/ FilesGetChildren
    \/ PopulationSettles
    \/ OnDidCreateFiles
    \/ OnDidSaveTextDocument
    \/ OtherWorkspaceEvent

SpecEvents == InitEvents /\ [][NextEvents]_vars

-----------------------------------------------------------------------------
\* A caching provider with a listener of onDidChangeTreeData that calls
\* getChildren() from inside the notification, as the tree view may.

\* What getChildren() returns with the fields holding nodes and promise.
RootResult(nodes, promise) ==
    IF Truthy(nodes) THEN nodes
    ELSE IF Truthy(promise) THEN promise
    ELSE PromiseOf(enumCalls + 1)

\* refresh() firing the notification before it clears the fields: the
\* listener's request reads the fields of before, which are cleared after.
RefreshFiresFirst ==
    /\ refreshCalls < MaxRefresh
    /\ enumCalls < MaxPops
    /\ fired' = fired + 1
    /\ ret' = RootResult(cachedNodes, cachePromise)
    /\ IF ret' = PromiseOf(enumCalls + 1)
       THEN /\ pops' = [pops EXCEPT ![enumCalls + 1] =
                           [status |-> "pending", gen |-> refreshCalls]]
            /\ enumCalls' = enumCalls + 1
       ELSE UNCHANGED <<pops, enumCalls>>
    /\ cachedNodes' = Undefined
    /\ cachePromise' = Undefined
    /\ refreshCalls' = refreshCalls + 1
    /\ afterRefresh' = TRUE
    /\ lastOp' = "refreshNotified"
    /\ UNCHANGED <<kind, call, settled>>
    /\ UNCHANGED scanVars

\* refresh(): both fields are cleared, then super.refresh() fires and the
\* listener's getChildren() runs before fire() returns.
RefreshNotifiesListener ==
    /\ refreshCalls < MaxRefresh
    /\ enumCalls < MaxPops
    /\ fired' = fired + 1
    /\ ret' = RootResult(Undefined, Undefined)
    /\ pops' = [pops EXCEPT ![enumCalls + 1] =
                    [status |-> "pending", gen |-> refreshCalls + 1]]
    /\ enumCalls' = enumCalls + 1
    /\ cachedNodes' = Undefined
    /\ cachePromise' = PromiseOf(enumCalls + 1)
    /\ refreshCalls' = refreshCalls + 1
    /\ afterRefresh' = FALSE
    /\ lastOp' = "refreshNotified"
    /\ UNCHANGED <<kind, call, settled>>
    /\ UNCHANGED scanVars

NextListener ==
    \/ ComponentsGetChildren
    \/ FilesGetChildren
    \/ PopulationSettles
    \/ RefreshNotifiesListener

SpecListener == InitEvents /\ [][NextListener]_vars

-----------------------------------------------------------------------------
\* One population of ListComponentsProvider, step by step: the enumerator
\* answers, the limiter starts the file tasks in order, at most Limit at a
\* time, each read resolves or rejects, and Promise.all resolves once every
\* task is done.

\* Files the enumerator may return to the traced population.
ScanMaxFiles == 3

\* allFiles.map with no limiter: every file's task starts at once.
NoLimit == ScanMaxFiles + 1

\* pLimit(2)
Limit == 2

\* What a file may be: a node without resource, a document that cannot be
\* opened, a document with two matching lines around a plain one, a
\* document with no matching line.
Shapes == {"nouri", "broken", "two", "none"}

ScanLabel(i) == <<"f", Digits[i + 1]>>

ScanUri(i) == CASE i = 1 -> "f1" [] i = 2 -> "f2" [] i = 3 -> "f3" [] OTHER -> "f4"

ScanFile(i, shape) ==
    FileEntry(ScanLabel(i), shape # "nouri", ScanUri(i), shape # "broken",
              CASE shape = "two" -> <<"  <Link href>", "import React", "</Card>">>
                [] shape = "none" -> <<"<div>">>
                [] OTHER -> <<>>)

ScanWorkspaces ==
    {NoFiles} \cup
    {Arr(0, [i \in DOMAIN shapes |-> ScanFile(i, shapes[i])]) :
        shapes \in UNION {[1..n -> Shapes] : n \in 1..ScanMaxFiles}}

\* The files of the traced population, by position.
FileIds == 1..Len(allFiles.items)

\* The tasks the limiter is running.
Active == {i \in DOMAIN task : task[i] = "reading"}

\* getChildren() with no element; the population it starts is the traced
\* one.
ScanGetChildren ==
    /\ kind = "components"
    /\ CachingGetChildren
    /\ phase' = IF enumCalls' # enumCalls THEN "enumerating" ELSE phase
    /\ UNCHANGED <<reads, allFiles, task, fileChildren, groupVars, doneOrder>>

\* The then-callback on the resolved population, and the bookkeeping of
\* the settled promise.
ScanResolves(nodes) ==
    /\ ThenCallback(nodes)
    /\ pops' = [pops EXCEPT ![1].status = "resolved"]
    /\ phase' = "resolved"

\* await ListFilesController.getFiles() resumes: return [] when there are
\* no files, else one limiter task per file is queued.
EnumeratorReturns ==
    /\ phase = "enumerating"
    /\ \E files \in ScanWorkspaces :
          IF ~Truthy(files)
          THEN /\ ScanResolves(Arr(1, <<>>))
               /\ UNCHANGED <<allFiles, task, fileChildren>>
          ELSE /\ allFiles' = files
               /\ task' = [i \in 1..Len(files.items) |-> "queued"]
               /\ fileChildren' = [i \in 1..Len(files.items) |-> Undefined]
               /\ phase' = "scanning"
               /\ UNCHANGED <<cachedNodes, cachePromise, pops>>
    /\ lastOp' = "enumerated"
    /\ UNCHANGED <<kind, reads, call, settled, enumCalls, fired, refreshCalls,
                   afterRefresh, ret, groupVars, doneOrder>>

\* TaskStarts without the return of the no-resource branch: the task
\* goes on into the try block after file.setChildren([]).
TaskStartsNoReturn ==
    /\ phase \in {"scanning", "rejected"}
    /\ Cardinality(Active) < Limit
    /\ \E i \in FileIds :
          /\ task[i] = "queued"
          /\ \A j \in 1..(i - 1) : task[j] # "queued"
          /\ task' = [task EXCEPT ![i] = "reading"]
          /\ IF ~allFiles.items[i].hasUri
             THEN /\ fileChildren' = [fileChildren EXCEPT ![i] = Arr(1, <<>>)]
                  /\ doneOrder' = Append(doneOrder, i)
             ELSE UNCHANGED <<fileChildren, doneOrder>>
    /\ lastOp' = "taskStarts"
    /\ UNCHANGED <<kind, reads, call, settled, cachedNodes, cachePromise, pops,
                   enumCalls, fired, refreshCalls, afterRefresh, ret, phase,
                   allFiles, groupVars>>

\* The limiter starts the oldest queued task when fewer than Limit run.
\* A file without resource gets [] at once; otherwise openTextDocument is
\* called and the task waits for it.
TaskStarts ==
    /\ phase \in {"scanning", "rejected"}
    /\ Cardinality(Active) < Limit
    /\ \E i \in FileIds :
          /\ task[i] = "queued"
          /\ \A j \in 1..(i - 1) : task[j] # "queued"
          /\ IF ~allFiles.items[i].hasUri
             THEN /\ fileChildren' = [fileChildren EXCEPT ![i] = Arr(1, <<>>)]
                  /\ task' = [task EXCEPT ![i] = "done"]
                  /\ doneOrder' = Append(doneOrder, i)
             ELSE /\ task' = [task EXCEPT ![i] = "reading"]
                  /\ UNCHANGED <<fileChildren, doneOrder>>
    /\ lastOp' = "taskStarts"
    /\ UNCHANGED <<kind, reads, call, settled, cachedNodes, cachePromise, pops,
                   enumCalls, fired, refreshCalls, afterRefresh, ret, phase,
                   allFiles, groupVars>>

\* openTextDocument resolves: the line loop, then file.setChildren(children).
ReadResolves ==
    /\ \E i \in Active :
          /\ allFiles.items[i].readable
          /\ fileChildren' = [fileChildren EXCEPT
                 ![i] = Arr(1, ComponentLeaves(allFiles.items[i]))]
          /\ task' = [task EXCEPT ![i] = "done"]
          /\ doneOrder' = Append(doneOrder, i)
    /\ lastOp' = "readResolves"
    /\ UNCHANGED <<kind, reads, call, settled, cachedNodes, cachePromise, pops,
                   enumCalls, fired, refreshCalls, afterRefresh, ret, phase,
                   allFiles, groupVars>>

\* The catch block left out: the rejected read rejects the task,
\* Promise.all and the population; the then-callback never runs.
CatchRethrows(i) ==
    /\ UNCHANGED fileChildren
    /\ phase' = "rejected"
    /\ pops' = [pops EXCEPT ![1].status = "rejected"]

\* The catch block: console.error, then file.setChildren([]).
Catch(i) ==
    /\ fileChildren' = [fileChildren EXCEPT ![i] = Arr(1, <<>>)]
    /\ UNCHANGED <<phase, pops>>

\* openTextDocument rejects: the catch block runs.
ReadRejects ==
    /\ \E i \in Active :
          /\ ~allFiles.items[i].readable
          /\ Catch(i)
          /\ task' = [task EXCEPT ![i] = "done"]
          /\ doneOrder' = Append(doneOrder, i)
    /\ lastOp' = "readRejects"
    /\ UNCHANGED <<kind, reads, call, settled, cachedNodes, cachePromise, enumCalls,
                   fired, refreshCalls, afterRefresh, ret, allFiles,
                   groupVars>>

\* allFiles.filter((file) => file.children?.length! > 0)
WithChildren ==
    LET nodes == [i \in FileIds |-> FileNode(allFiles.items[i], fileChildren[i])]
    IN  SelectSeq(nodes, LAMBDA n : Truthy(n.children) /\ Len(n.children.items) > 0)

\* getListComponents without the await of Promise.all: it returns as soon
\* as the tasks are handed to the limiter.
ScanCompletesNoAwait ==
    /\ phase = "scanning"
    /\ ScanResolves(Arr(1, <<>>))
    /\ lastOp' = "settle"
    /\ UNCHANGED <<kind, reads, call, settled, enumCalls, fired, refreshCalls,
                   afterRefresh, ret, allFiles, task, fileChildren, groupVars,
                   doneOrder>>

\* Promise.all resolves when every task is done; getListComponents
\* returns the files that have children and the then-callback stores them.
ScanCompletes ==
    /\ phase = "scanning"
    /\ \A i \in FileIds : task[i] = "done"
    /\ ScanResolves(Arr(1, WithChildren))
    /\ lastOp' = "settle"
    /\ UNCHANGED <<kind, reads, call, settled, enumCalls, fired, refreshCalls,
                   afterRefresh, ret, allFiles, task, fileChildren, groupVars,
                   doneOrder>>

-----------------------------------------------------------------------------
\* One population of the caching ListFilesProvider, step by step: the
\* enumerator answers, the limiter starts one task per watch category, the
\* tasks complete (in any order), each into its own slot of the array
\* Promise.all resolves to.

\* What the enumerator may return to the traced getListFiles.
GroupWorkspaces ==
    {NoFiles} \cup
    {Arr(0, fs) :
        fs \in UNION {[1..n -> {ButtonFile, HomeFile, UtilsFile}] :
                         n \in 1..ScanMaxFiles}}

\* A slot of Promise.all whose task has not completed.
PendingSlot == [t |-> "pending"]

\* The category tasks the limiter is running.
GroupActive == {i \in DOMAIN groupTask : groupTask[i] = "running"}

\* getChildren() with no element; the population it starts is the traced
\* one.
GroupGetChildren ==
    /\ kind = "files"
    /\ CachingGetChildren
    /\ phase' = IF enumCalls' # enumCalls THEN "awaitingFiles" ELSE phase
    /\ UNCHANGED <<reads, allFiles, task, fileChildren, groupVars, doneOrder>>

\* await ListFilesController.getFiles() resumes: return when there are no
\* files, else one limiter task per watch category is queued.
GroupEnumeratorReturns ==
    /\ phase = "awaitingFiles"
    /\ \E files \in GroupWorkspaces :
          IF ~Truthy(files)
          THEN /\ ScanResolves(Undefined)
               /\ UNCHANGED groupVars
          ELSE /\ groupFiles' = files
               /\ groupTask' = [i \in 1..Len(Watch) |-> "queued"]
               /\ groupSlots' = [i \in 1..Len(Watch) |-> PendingSlot]
               /\ phase' = "grouping"
               /\ UNCHANGED <<cachedNodes, cachePromise, pops>>
    /\ lastOp' = "enumerated"
    /\ UNCHANGED <<kind, reads, call, settled, enumCalls, fired, refreshCalls,
                   afterRefresh, ret, allFiles, task, fileChildren,
                   doneOrder>>

\* The limiter starts the oldest queued category task when fewer than
\* Limit run.
GroupTaskStarts ==
    /\ phase \in {"grouping", "rejected"}
    /\ Cardinality(GroupActive) < Limit
    /\ \E i \in DOMAIN groupTask :
          /\ groupTask[i] = "queued"
          /\ \A j \in 1..(i - 1) : groupTask[j] # "queued"
          /\ groupTask' = [groupTask EXCEPT ![i] = "running"]
    /\ lastOp' = "taskStarts"
    /\ UNCHANGED <<kind, reads, call, settled, cachedNodes, cachePromise, pops,
                   enumCalls, fired, refreshCalls, afterRefresh, ret, phase,
                   allFiles, task, fileChildren, groupFiles, groupSlots,
                   doneOrder>>

\* Results appended to the array as the tasks complete, in place of the
\* slots of Promise.all.
PushInCompletionOrder(i, out) ==
    groupSlots' = SelectSeq(groupSlots, LAMBDA g : g.t # "pending")
              \o <<out>>
              \o [k \in 1..(Len(groupSlots) - Len(doneOrder) - 1) |-> PendingSlot]

\* Promise.all: the value of the i-th task is the i-th element.
PromiseAllSlot(i, out) == groupSlots' = [groupSlots EXCEPT ![i] = out]

\* A category task completes: its node, or undefined, goes to its slot; a
\* throw inside the task rejects Promise.all and the population.
GroupTaskCompletes ==
    /\ \E i \in GroupActive :
          LET out == FilesGroup(groupFiles, Watch[i], 1)
          IN  /\ groupTask' = [groupTask EXCEPT ![i] = "done"]
              /\ doneOrder' = Append(doneOrder, i)
              /\ IF out.t = "throw"
                 THEN /\ phase' = "rejected"
                      /\ pops' = [pops EXCEPT ![1].status = "rejected"]
                      /\ UNCHANGED groupSlots
                 ELSE /\ PromiseAllSlot(i, out)
                      /\ UNCHANGED <<phase, pops>>
    /\ lastOp' = "taskCompletes"
    /\ UNCHANGED <<kind, reads, call, settled, cachedNodes, cachePromise, enumCalls,
                   fired, refreshCalls, afterRefresh, ret, allFiles, task,
                   fileChildren, groupFiles>>

\* groups.filter((node) => node !== undefined)
DefinedGroups ==
    LET kept == SelectSeq(groupSlots, LAMBDA g : Truthy(g.v))
    IN  [i \in 1..Len(kept) |-> kept[i].v]

\* Promise.all resolves when every category task is done; getListFiles
\* returns the defined groups and the then-callback stores them.
GroupCompletes ==
    /\ phase = "grouping"
    /\ \A i \in DOMAIN groupTask : groupTask[i] = "done"
    /\ ScanResolves(Arr(1, DefinedGroups))
    /\ lastOp' = "settle"
    /\ UNCHANGED <<kind, reads, call, settled, enumCalls, fired, refreshCalls,
                   afterRefresh, ret, allFiles, task, fileChildren, groupVars,
                   doneOrder>>

InitScan == Init /\ kind \in {"components", "files"}

NextScan ==
    \/ ScanGetChildren
    \/ EnumeratorReturns
    \/ TaskStarts
    \/ ReadResolves
    \/ ReadRejects
    \/ ScanCompletes
    \/ GroupGetChildren
    \/ GroupEnumeratorReturns
    \/ GroupTaskStarts
    \/ GroupTaskCompletes
    \/ GroupCompletes

SpecScan == InitScan /\ [][NextScan]_vars

\* The event loop runs every continuation that is ready: the enumerator
\* answers, every read the limiter started settles, the limiter starts a
\* queued task when a slot is free, and Promise.all resolves.
SpecScanFair ==
    /\ SpecScan
    /\ WF_vars(EnumeratorReturns)
    /\ WF_vars(TaskStarts)
    /\ WF_vars(ReadResolves)
    /\ WF_vars(ReadRejects)
    /\ WF_vars(ScanCompletes)

-----------------------------------------------------------------------------
\* The reads of every population of one ListComponentsProvider: each call
\* of getListComponents creates its own limiter, pLimit(2), and a
\* population that refresh() superseded keeps reading.

\* The populations followed at once.
MaxScans == 2

\* getChildren() with no element; a population it starts awaits the
\* enumerator.
ReadsGetChildren ==
    /\ kind = "components"
    /\ Truthy(cachedNodes) \/ Truthy(cachePromise) \/ enumCalls < MaxScans
    /\ CachingGetChildren
    /\ reads' = IF enumCalls' = enumCalls THEN reads
                ELSE [reads EXCEPT ![enumCalls'] =
                         [NoScan EXCEPT !.phase = "enumerating"]]
    /\ UNCHANGED <<phase, allFiles, task, fileChildren, groupVars, doneOrder>>

\* getListComponents of population id returns: the then-callback stores
\* its nodes.
ReadsResolve(id, files) ==
    LET out == getListComponents(files, id)
    IN  /\ pops' = [pops EXCEPT ![id].status = out.t]
        /\ settled' = [input |-> files, out |-> out]
        /\ ThenCallback(out.v)

\* await ListFilesController.getFiles() resumes in population id: return
\* [] when there are no files, else the limiter of this call queues one
\* task per file.  Every file of Workspaces has a resource, so every task
\* is a read.
ReadsEnumeratorReturns ==
    /\ \E id \in PopIds :
          /\ reads[id].phase = "enumerating"
          /\ \E files \in Workspaces :
                IF ~Truthy(files)
                THEN /\ ReadsResolve(id, files)
                     /\ reads' = [reads EXCEPT ![id] =
                            [NoScan EXCEPT !.phase = "done", !.files = files]]
                ELSE /\ reads' = [reads EXCEPT ![id] =
                            [phase |-> "scanning", files |-> files,
                             queued |-> Len(files.items), reading |-> 0]]
                     /\ UNCHANGED <<pops, settled, cachedNodes, cachePromise>>
    /\ lastOp' = "enumerated"
    /\ UNCHANGED <<kind, call, enumCalls, fired, refreshCalls, afterRefresh,
                   ret, phase, allFiles, task, fileChildren, groupVars,
                   doneOrder>>

\* ReadStarts with one task started whenever one is queued: no limiter.
ReadStartsUnlimited ==
    /\ \E id \in PopIds :
          /\ reads[id].phase = "scanning"
          /\ reads[id].queued > 0
          /\ reads' = [reads EXCEPT ![id].queued = @ - 1, ![id].reading = @ + 1]
    /\ lastOp' = "taskStarts"
    /\ UNCHANGED <<kind, call, settled, cachedNodes, cachePromise, pops,
                   enumCalls, fired, refreshCalls, afterRefresh, ret, phase,
                   allFiles, task, fileChildren, groupVars, doneOrder>>

\* The limiter of population id starts its oldest queued task when fewer
\* than Limit of its own tasks run: openTextDocument is called.
ReadStarts ==
    /\ \E id \in PopIds :
          /\ reads[id].phase = "scanning"
          /\ reads[id].queued > 0
          /\ reads[id].reading < Limit
          /\ reads' = [reads EXCEPT ![id].queued = @ - 1, ![id].reading = @ + 1]
    /\ lastOp' = "taskStarts"
    /\ UNCHANGED <<kind, call, settled, cachedNodes, cachePromise, pops,
                   enumCalls, fired, refreshCalls, afterRefresh, ret, phase,
                   allFiles, task, fileChildren, groupVars, doneOrder>>

\* A read of population id settles: the line loop, or the catch block,
\* then file.setChildren; the task ends and frees its slot.
ReadSettles ==
    /\ \E id \in PopIds :
          /\ reads[id].reading > 0
          /\ reads' = [reads EXCEPT ![id].reading = @ - 1]
    /\ lastOp' = "readSettles"
    /\ UNCHANGED <<kind, call, settled, cachedNodes, cachePromise, pops,
                   enumCalls, fired, refreshCalls, afterRefresh, ret, phase,
                   allFiles, task, fileChildren, groupVars, doneOrder>>

\* Promise.all of population id resolves when all its tasks are done.
ReadsComplete ==
    /\ \E id \in PopIds :
          /\ reads[id].phase = "scanning"
          /\ reads[id].queued = 0 /\ reads[id].reading = 0
          /\ ReadsResolve(id, reads[id].files)
          /\ reads' = [reads EXCEPT ![id].phase = "done"]
    /\ lastOp' = "settle"
    /\ UNCHANGED <<kind, call, enumCalls, fired, refreshCalls, afterRefresh,
                   ret, phase, allFiles, task, fileChildren, groupVars,
                   doneOrder>>

InitReads == Init /\ kind = "components"

NextReads ==
    \/ ReadsGetChildren
    \/ ReadsEnumeratorReturns
    \/ ReadStarts
    \/ ReadSettles
    \/ ReadsComplete
    \/ RefreshCommand
    \/ OnDidCreateFiles

SpecReads == InitReads /\ [][NextReads]_vars

-----------------------------------------------------------------------------
\* The helpers of inflector.helper.ts, called on their own.

\* The largest number handed to ordinal and ordinalize.
MaxNum == 125

Nums == 0..MaxNum

\* The longest string handed to the string helpers.
MaxLen == 4

\* The strings of length 1..MaxLen over the characters of set chars.
StringsOver(chars) == UNION {[1..n -> chars] : n \in 1..MaxLen}

\* Lowercase words, with the letters the plural rules look at.
Words == StringsOver({"a", "e", "i", "s", "y"})

\* Words in either case, separated by spaces or underscores.
Texts == StringsOver({"a", "b", "B", " ", "_"})

\* Everything but the record of the helper call.
providerVars ==
    <<kind, cachedNodes, cachePromise, pops, enumCalls, fired, refreshCalls,
      afterRefresh, lastOp, ret, settled, scanVars>>

\* The helpers keep no state: a behaviour observes one call.
CallOrdinal ==
    /\ call = NoCall
    /\ \E num \in Nums :
          call' = [fn |-> "ordinal", arg |-> num, out |-> ordinal(num)]
    /\ UNCHANGED providerVars

CallOrdinalize ==
    /\ call = NoCall
    /\ \E num \in Nums :
          call' = [fn |-> "ordinalize", arg |-> num, out |-> ordinalize(num)]
    /\ UNCHANGED providerVars

\* singularize(pluralize(w))
CallSingularizePluralize ==
    /\ call = NoCall
    /\ \E w \in Words :
          call' = [fn |-> "singularize(pluralize)", arg |-> w,
                   out |-> singularize(pluralize(w))]
    /\ UNCHANGED providerVars

\* camelize(pascalize(s)) and pascalize(camelize(s))
CallCamelizePascalize ==
    /\ call = NoCall
    /\ \E s \in Texts :
          call' = [fn |-> "camelize/pascalize", arg |-> s,
                   out |-> <<camelize(pascalize(s)), pascalize(camelize(s))>>]
    /\ UNCHANGED providerVars

CallPascalize ==
    /\ call = NoCall
    /\ \E s \in Texts :
          call' = [fn |-> "pascalize", arg |-> s, out |-> pascalize(s)]
    /\ UNCHANGED providerVars

CallTitleize ==
    /\ call = NoCall
    /\ \E s \in Texts :
          call' = [fn |-> "titleize", arg |-> s, out |-> titleize(s)]
    /\ UNCHANGED providerVars

InitInflector == Init /\ kind = "components"

NextInflector ==
    \/ CallOrdinal
    \/ CallOrdinalize
    \/ CallSingularizePluralize
    \/ CallCamelizePascalize
    \/ CallPascalize
    \/ CallTitleize

SpecInflector == InitInflector /\ [][NextInflector]_vars

-----------------------------------------------------------------------------
\* Vocabulary of the properties.

\* The populations in flight: started and not yet settled.
InFlight == {id \in PopIds : pops[id].status = "pending"}

\* No refresh() (explicit or by a file event) since population id started.
NotSuperseded(id) == pops[id].gen = refreshCalls

\* The step is a root children-request.
RootRequest == lastOp' = "getChildren"

\* The step is a refresh() call, explicit or by a file event.
RefreshStep ==
    lastOp' \in {"refresh", "onDidCreateFiles", "onDidSaveTextDocument"}

\* The step settles population id.
Settles(id) == lastOp' = "settle" /\ id \in InFlight /\ id \notin InFlight'

\* The states of the cache entry.
CacheEmpty == cachedNodes.t = "undefined" /\ cachePromise.t = "undefined"

CachePopulating == cachedNodes.t = "undefined" /\ cachePromise.t = "promise"

CachePopulated == cachedNodes.t = "array"

-----------------------------------------------------------------------------
\* C1: a root children-request of a caching provider, issued while a
\* population started by an earlier root request is in flight with no
\* refresh() since that population started, returns that population's
\* pending promise and starts no second population.
C1_SingleFlight ==
    [][\A id \in PopIds :
         (kind \in Caching /\ RootRequest /\ id \in InFlight /\ NotSuperseded(id))
            => (ret' = PromiseOf(id) /\ enumCalls' = enumCalls)]_vars

\* C2 as stated: in every reachable state of a caching provider at most
\* one population is in flight.
C2_AtMostOneInFlight ==
    kind \in Caching => Cardinality(InFlight) <= 1

\* C2 amended: a population superseded by refresh() keeps running beside
\* the one the next root request starts, so the populations in flight
\* number at most one more than the refresh() calls made so far (at most
\* one while no refresh() was called).
C2_AtMostOneMoreThanRefreshes ==
    kind \in Caching => Cardinality(InFlight) <= 1 + refreshCalls

\* Two root requests were made while the first one's population was in
\* flight, and one population runs.
C2_Witness ==
    /\ kind \in Caching
    /\ refreshCalls = 0
    /\ enumCalls = 1
    /\ InFlight = {1}
    /\ lastOp = "getChildren"
    /\ ret = PromiseOf(1)
    /\ afterRefresh = FALSE

\* C3: when a population that a refresh() superseded settles, it leaves
\* both cache fields as they are.
C3_SupersededResultDiscarded ==
    [][\A id \in PopIds :
         (kind \in Caching /\ Settles(id) /\ ~NotSuperseded(id))
            => (cachedNodes' = cachedNodes /\ cachePromise' = cachePromise)]_vars

\* C4: a refresh() leaves the cache of a caching provider Empty, and the
\* first root children-request after it starts a new population.
C4_RefreshThenRepopulate ==
    [][(kind \in Caching) =>
         ((RefreshStep => CacheEmpty')
          /\ ((afterRefresh /\ RootRequest) => enumCalls' = enumCalls + 1))]_vars

\* C5: a step fires the change event once if it is a refresh() call and
\* not at all otherwise.
C5_OneNotificationPerRefresh ==
    [][IF RefreshStep THEN fired' = fired + 1 ELSE fired' = fired]_vars

\* Every kind of operation has run and two refresh() calls have fired two
\* notifications.
C5_Witness ==
    /\ fired = 2
    /\ refreshCalls = 2
    /\ \E id \in PopIds : pops[id].status = "resolved"
    /\ lastOp \in {"refresh", "onDidCreateFiles", "onDidSaveTextDocument"}

\* C6: a root children-request of a Populated caching provider returns the
\* cached array itself and starts nothing.
C6_PopulatedServedFromCache ==
    [][(kind \in Caching /\ CachePopulated /\ RootRequest)
          => (ret' = cachedNodes
              /\ enumCalls' = enumCalls
              /\ pops' = pops
              /\ cachedNodes' = cachedNodes
              /\ cachePromise' = cachePromise)]_vars

\* A root request was served from a cache that holds an empty array.
C6_Witness ==
    /\ kind \in Caching
    /\ CachePopulated
    /\ Len(cachedNodes.items) = 0
    /\ lastOp = "getChildren"
    /\ ret = cachedNodes

\* C7: when a population that no refresh() superseded resolves, the cache
\* is Populated.
C7_CompletionPopulates ==
    [][\A id \in PopIds :
         (kind \in Caching /\ Settles(id) /\ pops'[id].status = "resolved"
            /\ NotSuperseded(id))
            => CachePopulated']_vars

\* C8: _cachedNodes and _cachePromise are never both set.
C8_NeverBothSet ==
    ~(cachedNodes.t # "undefined" /\ cachePromise.t # "undefined")

\* A superseded population has stored its result while the population
\* that replaced it is still in flight.
C8_Witness ==
    /\ kind \in Caching
    /\ CachePopulated
    /\ ~NotSuperseded(cachedNodes.id)
    /\ \E id \in InFlight : NotSuperseded(id)

MatchingLines(f) == {j \in 1..Len(f.lines) : ComponentName(f.lines[j]) # ""}

\* The top-level nodes of the traced population's result for file i.
ResultNodesOf(i) ==
    {k \in 1..Len(cachedNodes.items) : cachedNodes.items[k].uri = ScanUri(i)}

\* C10: in a population of the components provider a read that fails
\* never fails the population; the file it belongs to gets an empty child
\* sequence and is absent from the result, and every readable file with a
\* matching line is in the result once, with one leaf per matching line.
C10_ReadFailureContained ==
    /\ phase # "rejected"
    /\ pops[1].status # "rejected"
    /\ phase \in {"enumerating", "scanning"} => ENABLED NextScan
    /\ \A i \in DOMAIN task :
          (task[i] = "done" /\ ~allFiles.items[i].readable)
             => fileChildren[i] = Arr(1, <<>>)
    /\ (phase = "resolved" /\ Truthy(allFiles)) =>
          /\ pops[1].status = "resolved"
          /\ cachedNodes.t = "array"
          /\ \A i \in FileIds :
                LET f == allFiles.items[i]
                IN  /\ ~f.readable => ResultNodesOf(i) = {}
                    /\ (f.readable /\ f.hasUri /\ MatchingLines(f) # {}) =>
                          /\ Cardinality(ResultNodesOf(i)) = 1
                          /\ \A k \in ResultNodesOf(i) :
                                LET leaves == cachedNodes.items[k].children.items
                                IN  /\ Len(leaves) = Cardinality(MatchingLines(f))
                                    /\ \A j \in MatchingLines(f) :
                                          \E n \in 1..Len(leaves) :
                                             leaves[n].command = GotoLine(f.uri, j - 1)

\* A population over an unreadable file between two readable files with
\* matches has resolved, and both siblings are in its result.
C10_Witness ==
    /\ phase = "resolved"
    /\ Truthy(allFiles)
    /\ Len(allFiles.items) = 3
    /\ ~allFiles.items[2].readable
    /\ MatchingLines(allFiles.items[1]) # {}
    /\ MatchingLines(allFiles.items[3]) # {}
    /\ Len(cachedNodes.items) = 2

\* C11: no root children-request of the hooks or routes provider is
\* rejected, whatever files of the workspace cannot be opened.
C11_LineScanNeverRejects ==
    kind \in {"hooks", "routes"} =>
        \A id \in PopIds : pops[id].status # "rejected"

\* The file-content reads in flight: openTextDocument was called for the
\* file and its node has no children yet.
ReadsInFlight ==
    {i \in DOMAIN task : task[i] # "queued" /\ fileChildren[i].t = "undefined"}

\* The files whose task waits in the limiter's queue.
Queued == {i \in DOMAIN task : task[i] = "queued"}

\* C12: during a population of the components provider at most 2 reads
\* are in flight, a read that failed holds no slot, and whenever a file is
\* queued and fewer than 2 reads are in flight the next task can start.
C12_AtMostTwoReads ==
    /\ Cardinality(ReadsInFlight) <= 2
    /\ \A i \in DOMAIN task :
          (task[i] # "queued" /\ allFiles.items[i].hasUri
              /\ ~allFiles.items[i].readable /\ fileChildren[i].t # "undefined")
             => i \notin ReadsInFlight
    /\ (Queued # {} /\ Cardinality(ReadsInFlight) < 2) => ENABLED TaskStarts

\* The first of three reads failed, and the third file, queued behind two
\* running reads, is now being read beside the second.
C12_Witness ==
    /\ Len(task) = 3
    /\ allFiles.items[1].hasUri
    /\ ~allFiles.items[1].readable
    /\ fileChildren[1] = Arr(1, <<>>)
    /\ ReadsInFlight = {2, 3}

\* The position in the enumerator's answer of the file behind top-level
\* node n of the traced getListComponents.
ResultFileIndex(n) == CHOOSE i \in FileIds : ScanUri(i) = n.uri

\* The position in the watch list of the category behind group node n.
WatchIndex(n) ==
    CHOOSE w \in 1..Len(Watch) :
        LET prefix == titleize(Watch[w]).v \o <<":">>
        IN  /\ Len(n.label) >= Len(prefix)
            /\ SubSeq(n.label, 1, Len(prefix)) = prefix

\* C13: whatever the order in which the file reads or the category tasks
\* completed, the stored result is the one a sequential pass over the
\* input gives: files in enumerator order, each file's leaves in strictly
\* ascending line index, categories in watch-list order.
C13_DeterministicOrder ==
    /\ (kind = "components" /\ phase = "resolved" /\ Truthy(allFiles)) =>
          /\ cachedNodes = getListComponents(allFiles, 1).v
          /\ \A k, l \in 1..Len(cachedNodes.items) :
                k < l => ResultFileIndex(cachedNodes.items[k])
                            < ResultFileIndex(cachedNodes.items[l])
          /\ \A k \in 1..Len(cachedNodes.items) :
                LET leaves == cachedNodes.items[k].children.items
                IN  \A m, n \in 1..Len(leaves) :
                       m < n => leaves[m].command.line < leaves[n].command.line
    /\ (kind = "files" /\ phase = "resolved" /\ Truthy(groupFiles)) =>
          /\ cachedNodes = getListFiles(groupFiles, 1).v
          /\ \A k, l \in 1..Len(cachedNodes.items) :
                k < l => WatchIndex(cachedNodes.items[k])
                            < WatchIndex(cachedNodes.items[l])

\* A population resolved with two top-level nodes although the task of
\* the second one completed before the task of the first.
C13_Witness ==
    /\ phase = "resolved"
    /\ Len(doneOrder) >= 2
    /\ doneOrder[1] > doneOrder[2]
    /\ cachedNodes.t = "array"
    /\ Len(cachedNodes.items) = 2

\* The line-scanning providers.
LineScanners == {"components", "hooks", "routes"}

\* Line text matches the pattern of provider class k.
PatternMatches(k, text) ==
    CASE k = "components" -> ComponentName(text) # ""
      [] k = "hooks" -> HookMatch(text)
      [] k = "routes" -> RouteMatch(text)

\* The child sequence of file entry f after the population settled last:
\* the children of its node in the result, none when it is not there.
SettledChildren(f) ==
    IF ~Truthy(settled.out.v) THEN <<>>
    ELSE LET items == settled.out.v.items
             at == {k \in 1..Len(items) : items[k].uri = f.uri}
         IN  IF at = {} THEN <<>> ELSE items[CHOOSE k \in at : TRUE].children.items

\* C14: after a resolved population of a line-scanning provider each
\* readable file has exactly one leaf per line matching the provider's
\* pattern and none for any other line, in ascending line order, and the
\* leaf's command carries the file's resource and the line's 0-based index.
C14_LineScannerResult ==
    (kind \in LineScanners /\ settled.out.t = "resolved" /\ Truthy(settled.input))
    => \A i \in 1..Len(settled.input.items) :
          LET f == settled.input.items[i]
              kids == SettledChildren(f)
          IN  (f.hasUri /\ f.readable) =>
                 /\ \A j \in 1..Len(f.lines) :
                       Cardinality({n \in 1..Len(kids) :
                                       kids[n].command = GotoLine(f.uri, j - 1)})
                          = IF PatternMatches(kind, f.lines[j]) THEN 1 ELSE 0
                 /\ \A n \in 1..Len(kids) :
                       /\ kids[n].command.uri = f.uri
                       /\ kids[n].command.line \in 0..(Len(f.lines) - 1)
                       /\ ~Truthy(kids[n].children)
                 /\ \A m, n \in 1..Len(kids) :
                       m < n => kids[m].command.line < kids[n].command.line

\* A hooks population over two readable files resolved with the one file
\* that has a matching line, on its third line.
C14_Witness ==
    /\ kind = "hooks"
    /\ settled.out.t = "resolved"
    /\ Truthy(settled.input)
    /\ Len(settled.input.items) = 2
    /\ Truthy(settled.out.v)
    /\ Len(settled.out.v.items) = 1
    /\ settled.out.v.items[1].children.items[1].command
          = GotoLine("Button.component.tsx", 2)

\* The files of the grouping example: Button.component.tsx, Home.page.tsx
\* and utils.ts.
ExampleFiles == Arr(0, <<ButtonFile, HomeFile, UtilsFile>>)

\* C15: for watch list [components, pages] and the example's three files
\* every files provider resolves to exactly two group nodes, labeled
\* "components: 1" with Button.component.tsx as only child and "pages: 1"
\* with Home.page.tsx as only child.
C15_GroupingExample ==
    (kind \in {"files", "filesPlain"} /\ settled.out.t = "resolved"
        /\ settled.input = ExampleFiles)
    => /\ Truthy(settled.out.v)
       /\ Len(settled.out.v.items) = 2
       /\ settled.out.v.items[1].label = Watch[1] \o <<":", " ", "1">>
       /\ settled.out.v.items[2].label = Watch[2] \o <<":", " ", "1">>
       /\ Len(settled.out.v.items[1].children.items) = 1
       /\ settled.out.v.items[1].children.items[1].label = ButtonFile.label
       /\ Len(settled.out.v.items[2].children.items) = 1
       /\ settled.out.v.items[2].children.items[1].label = HomeFile.label

\* The top-level nodes of the result of the population settled last.
SettledItems ==
    IF settled.out.t = "resolved" /\ Truthy(settled.out.v)
    THEN settled.out.v.items
    ELSE <<>>

\* File entry f has a line that the pattern of provider class k matches.
HasMatch(k, f) ==
    f.hasUri /\ f.readable /\ \E j \in 1..Len(f.lines) : PatternMatches(k, f.lines[j])

\* C16: every top-level node of a resolved root children-request has at
\* least one child; a line-scanning provider's result holds a file's node
\* exactly when the file has a matching line, and a files provider's
\* result holds one node per watch category that some file label
\* contains in singular form, and none for the other categories.
C16_NoEmptyTopLevelNode ==
    /\ \A k \in 1..Len(SettledItems) :
          /\ Truthy(SettledItems[k].children)
          /\ Len(SettledItems[k].children.items) >= 1
    /\ (kind \in LineScanners /\ settled.out.t = "resolved"
           /\ Truthy(settled.input)) =>
          \A i \in 1..Len(settled.input.items) :
             LET f == settled.input.items[i]
             IN  Cardinality({k \in 1..Len(SettledItems) :
                                 SettledItems[k].uri = f.uri /\ f.hasUri})
                    = IF HasMatch(kind, f) THEN 1 ELSE 0
    /\ (kind \in {"files", "filesPlain"} /\ settled.out.t = "resolved"
           /\ Truthy(settled.input)) =>
          Len(SettledItems)
             = Cardinality({w \in 1..Len(Watch) :
                   \E i \in 1..Len(settled.input.items) :
                      Includes(settled.input.items[i].label, singularize(Watch[w]))})

\* A components population over three files resolved with one node: the
\* file that cannot be read and the file without a match are left out.
C16_Witness ==
    /\ kind = "components"
    /\ settled.out.t = "resolved"
    /\ settled.input = ExampleFiles
    /\ Len(SettledItems) = 1
    /\ SettledItems[1].uri = "Button.component.tsx"

\* C17: a population that the enumerator answered with no files (undefined
\* or an empty array) resolves, whatever the provider class, and its
\* result has no node.
C17_NoFilesEmptyTree ==
    (~Truthy(settled.input) \/ Len(settled.input.items) = 0)
    => /\ settled.out.t = "resolved"
       /\ Len(SettledItems) = 0

\* A population of the hooks provider, answered with no files, has just
\* resolved.
C17_Witness ==
    /\ kind = "hooks"
    /\ lastOp = "settle"
    /\ settled.input = NoFiles
    /\ settled.out.t = "resolved"
    /\ pops[1].status = "resolved"
    /\ enumCalls = 1

\* How many tasks of file i have run to their file.setChildren call.
TimesAssigned(i) == Cardinality({k \in 1..Len(doneOrder) : doneOrder[k] = i})

\* C18: in a population of the components provider no file node gets its
\* children assigned twice, a node has children exactly when its task has
\* assigned them, once the population has resolved every file node was
\* assigned once (without resource, read, or failed to read alike), and no
\* leaf has children.
C18_ChildrenAssignedOnce ==
    kind = "components" =>
       /\ \A i \in DOMAIN task :
             /\ TimesAssigned(i) <= 1
             /\ Truthy(fileChildren[i]) <=> TimesAssigned(i) = 1
             /\ Truthy(fileChildren[i]) =>
                   \A n \in 1..Len(fileChildren[i].items) :
                      ~Truthy(fileChildren[i].items[n].children)
       /\ (phase = "resolved" /\ Truthy(allFiles)) =>
             /\ \A i \in FileIds : TimesAssigned(i) = 1
             /\ \A k \in 1..Len(cachedNodes.items) :
                   \A n \in 1..Len(cachedNodes.items[k].children.items) :
                      ~Truthy(cachedNodes.items[k].children.items[n].children)

\* A population over a file without resource, a file that cannot be read
\* and a file with matches has resolved.
C18_Witness ==
    /\ kind = "components"
    /\ phase = "resolved"
    /\ Truthy(allFiles)
    /\ Len(allFiles.items) = 3
    /\ ~allFiles.items[1].hasUri
    /\ ~allFiles.items[2].readable
    /\ Len(fileChildren[3].items) = 2
    /\ Len(doneOrder) = 3

\* The suffix of the English ordinal of n.
EnglishSuffix(n) ==
    CASE n % 10 = 1 /\ n % 100 # 11 -> <<"s", "t">>
      [] n % 10 = 2 /\ n % 100 # 12 -> <<"n", "d">>
      [] n % 10 = 3 /\ n % 100 # 13 -> <<"r", "d">>
      [] OTHER -> <<"t", "h">>

\* C19: ordinalize(n) is the decimal digits of n, once, followed by the
\* English ordinal suffix of n.
C19_OrdinalizeDigitsOnce ==
    call.fn = "ordinalize" => call.out = NumToString(call.arg) \o EnglishSuffix(call.arg)

\* C20: ordinal(n) is n followed by "st" when n mod 10 = 1 and n mod 100
\* is not 11, by "nd" when n mod 10 = 2 and n mod 100 is not 12, by "rd"
\* when n mod 10 = 3 and n mod 100 is not 13, and by "th" otherwise.
C20_OrdinalSuffix ==
    call.fn = "ordinal" =>
       LET n == call.arg
           suffix == SubSeq(call.out, Len(call.out) - 1, Len(call.out))
       IN  /\ call.out = NumToString(n) \o suffix
           /\ suffix = <<"s", "t">> <=> (n % 10 = 1 /\ n % 100 # 11)
           /\ suffix = <<"n", "d">> <=> (n % 10 = 2 /\ n % 100 # 12)
           /\ suffix = <<"r", "d">> <=> (n % 10 = 3 /\ n % 100 # 13)
           /\ suffix = <<"t", "h">> <=>
                 ~(\/ (n % 10 = 1 /\ n % 100 # 11)
                   \/ (n % 10 = 2 /\ n % 100 # 12)
                   \/ (n % 10 = 3 /\ n % 100 # 13))

\* ordinal was called on 112, a three-digit number of the exceptions.
C20_Witness ==
    /\ call.fn = "ordinal"
    /\ call.arg = 112
    /\ call.out = <<"1", "1", "2", "t", "h">>

\* C21: singularize(pluralize(w)) = w for every lowercase word w that
\* does not end in "s".
C21_SingularizePluralize ==
    (call.fn = "singularize(pluralize)" /\ ~EndsWith(call.arg, <<"s">>))
    => call.out = call.arg

\* A string compared without regard to case.
LowerCased(str) == [i \in 1..Len(str) |-> toLowerCase(str[i])]

IsLetter(c) == IsWordChar(c) /\ c # "_" /\ ~\E i \in 1..Len(Digits) : Digits[i] = c

\* Words of letters in either case, separated by spaces.
LettersAndSpaces(str) == \A i \in 1..Len(str) : IsLetter(str[i]) \/ str[i] = " "

\* C22: for every string s of alternating-case words, camelize(pascalize(s))
\* and pascalize(camelize(s)) are equal when compared case-insensitively.
C22_CamelizePascalizeCommute ==
    (call.fn = "camelize/pascalize" /\ LettersAndSpaces(call.arg))
    => LowerCased(call.out[1]) = LowerCased(call.out[2])

\* Two alternating-case words: the two results differ, in case only.
C22_Witness ==
    /\ call.fn = "camelize/pascalize"
    /\ call.arg = <<"a", "B", " ", "b">>
    /\ call.out = << <<"a", "B", "B">>, <<"A", "B", "B">> >>

\* Lowercase words joined by single spaces or single underscores.
IsSeparator(c) == c = " " \/ c = "_"

LowercaseWords(str) ==
    /\ Len(str) > 0
    /\ \A i \in 1..Len(str) : IsSeparator(str[i]) \/ toUpperCase(str[i]) # str[i]
    /\ ~IsSeparator(str[1]) /\ ~IsSeparator(str[Len(str)])
    /\ \A i \in 1..(Len(str) - 1) : ~(IsSeparator(str[i]) /\ IsSeparator(str[i + 1]))

\* The words concatenated, each with its first letter upper-cased.
RECURSIVE PascalCase(_, _)
PascalCase(str, start) ==
    IF Len(str) = 0 THEN <<>>
    ELSE IF IsSeparator(str[1]) THEN PascalCase(Tail(str), TRUE)
    ELSE <<IF start THEN toUpperCase(str[1]) ELSE str[1]>>
         \o PascalCase(Tail(str), FALSE)

\* C23: for lowercase words joined by single spaces or single underscores,
\* pascalize returns the concatenation of the capitalised words, with no
\* space and no underscore.
C23_PascalizeWords ==
    (call.fn = "pascalize" /\ LowercaseWords(call.arg))
    => /\ \A i \in 1..Len(call.out) : ~IsSeparator(call.out[i])
       /\ call.out = PascalCase(call.arg, TRUE)

\* The first letter of each space-separated word upper-cased.
TitleCase(str) ==
    [i \in 1..Len(str) |->
        IF i = 1 \/ str[i - 1] = " " THEN toUpperCase(str[i]) ELSE str[i]]

\* C24: for every non-empty string of letters and spaces, leading, trailing
\* and consecutive spaces included, titleize returns without throwing the
\* string with the first letter of each word upper-cased.
C24_TitleizeTotal ==
    (call.fn = "titleize" /\ LettersAndSpaces(call.arg))
    => (call.out.t = "return" /\ call.out.v = TitleCase(call.arg))

\* The step is the handler of a file-created or document-saved event.
FileEventStep == lastOp' \in {"onDidCreateFiles", "onDidSaveTextDocument"}

C26_LatestPopulationWins ==
    (kind \in Caching /\ InFlight = {} /\ CachePopulated)
    => cachedNodes.id = enumCalls

\* C27: a failed population is not retried.  The then-callback does not
\* run when the population's result is rejected; while the cache holds the
\* rejected pending result it stays as it is, a root request returns that
\* same result and starts no population, and only refresh() or a file
\* event changes the cache, to Empty.
C27_FailedPopulationStays ==
    [][(\A id \in PopIds :
          /\ (Settles(id) /\ pops'[id].status = "rejected")
                => UNCHANGED <<cachedNodes, cachePromise>>
          /\ (pops[id].status = "rejected" /\ CachePopulating
                 /\ cachePromise = PromiseOf(id))
                => \/ RefreshStep /\ CacheEmpty'
                   \/ /\ UNCHANGED <<cachedNodes, cachePromise, enumCalls>>
                      /\ RootRequest => ret' = PromiseOf(id))]_vars

\* C28: refresh() of a caching provider clears both cache fields before
\* it fires: a listener that issues a root request from inside the
\* notification starts a new population and receives its pending result,
\* never the cached list or the pending result of before the refresh().
C28_ListenerSeesEmptyCache ==
    [][(lastOp' = "refreshNotified" =>
          /\ enumCalls' = enumCalls + 1
          /\ pops'[enumCalls'].status = "pending"
          /\ ret' = PromiseOf(enumCalls')
          /\ cachePromise' = ret'
          /\ ret' # cachedNodes
          /\ ret' # cachePromise)]_vars

\* The listener asked during a refresh() of a provider whose cache held
\* the list of the first population, and a second population started.
C28_Witness ==
    /\ lastOp = "refreshNotified"
    /\ pops[1].status = "resolved" /\ pops[1].gen = 0
    /\ pops[2] = [status |-> "pending", gen |-> 1]
    /\ ret = PromiseOf(2)
    /\ cachePromise = PromiseOf(2)

\* The traced population of the components provider is over: every
\* enumerated file had its children assigned once, no task waits in the
\* limiter and none reads, and the cache is Populated.
ScanDone ==
    /\ phase = "resolved"
    /\ pops[1].status = "resolved"
    /\ CachePopulated
    /\ Queued = {} /\ Active = {}
    /\ \A i \in DOMAIN task : task[i] = "done" /\ TimesAssigned(i) = 1

\* C29: a population of the components provider terminates.  When the
\* enumerator returns and every started read settles, the population
\* completes with every enumerated file scanned or marked empty exactly
\* once and none left in the limiter, and the cache leaves Populating for
\* Populated; it then stays so.
C29_PopulationTerminates ==
    /\ (kind = "components" /\ phase = "enumerating") ~> ScanDone
    /\ [](((kind = "components" /\ phase = "resolved")) => ScanDone)

\* The population over three files, the second unreadable, is over; the
\* third file had to wait in the limiter.
C29_Witness ==
    /\ kind = "components"
    /\ ScanDone
    /\ Len(task) = 3
    /\ ~allFiles.items[2].readable
    /\ doneOrder[3] = 3

\* The reads in flight of the populations 1..n of the provider.
RECURSIVE ReadsUpTo(_)
ReadsUpTo(n) == IF n = 0 THEN 0 ELSE reads[n].reading + ReadsUpTo(n - 1)

TotalReads == ReadsUpTo(MaxPops)

\* C30: provider-wide read bound: the file-content reads in flight, summed
\* over all the populations of one components provider, current and
\* superseded, are at most 2.
C30_ProviderWideReadBound == TotalReads <= 2

\* C30 (amended): each population of a components provider has at most 2
\* reads in flight, and the reads of all its populations together are at
\* most 2 for each refresh() called so far and 2 more.
C30_ReadsBoundedPerPopulation ==
    /\ \A id \in PopIds : reads[id].reading <= 2
    /\ TotalReads <= 2 * (refreshCalls + 1)

\* A superseded population and the one started after the refresh() read
\* two files each.
C30_Witness ==
    /\ refreshCalls = 1
    /\ pops[1] = [status |-> "pending", gen |-> 0]
    /\ pops[2] = [status |-> "pending", gen |-> 1]
    /\ reads[1].reading = 2
    /\ reads[2].reading = 2

====
